---------------------------- MODULE Spec2Model ----------------------------
(*************************************************************************)
(* Model of PostProcessing/python/Palisade/Processors/_plot.py:          *)
(*   - PlotProcessor._plot          (one plotting pass, stepped by pc)   *)
(*   - PlotProcessor._get_figure / clear_figures  (figure cache)         *)
(*   - PlotProcessor._merge_legend_handles_labels                        *)
(*   - PlotProcessor._sort_legend_handles_labels                         *)
(*   - _plot_as_step                 (step geometry)                     *)
(*                                                                       *)
(* Numbers are integers standing for the floats of the code.  A numpy    *)
(* array is a sequence.  Python's None is the string "None" for option   *)
(* values and the empty sequence for an absent list.                     *)
(*************************************************************************)
EXTENDS Integers, Sequences, FiniteSets, TLC

None == "None"

\* ---------------------------------------------------------------------
\* numpy helpers
\* ---------------------------------------------------------------------

Min2(a, b) == IF a <= b THEN a ELSE b

\* two 1-d shapes broadcast together
Broadcastable(n, m) == n = m \/ n = 1 \/ m = 1

\* length of the broadcast of two 1-d shapes
BroadcastLen(n, m) == IF n = 1 THEN m ELSE IF m = 1 THEN n ELSE n

\* element i of array a seen through a broadcast
At(a, i) == IF Len(a) = 1 THEN a[1] ELSE a[i]

\* a + b, elementwise with broadcasting (shapes must be Broadcastable)
ArrAdd(a, b) == [i \in 1..BroadcastLen(Len(a), Len(b)) |-> At(a, i) + At(b, i)]

\* a / b, elementwise with broadcasting
ArrDiv(a, b) == [i \in 1..BroadcastLen(Len(a), Len(b)) |-> At(a, i) \div At(b, i)]

\* np.compress(mask, a, axis=0): the entries of a whose mask bit is set, in order
RECURSIVE Compress(_, _)
Compress(mask, a) ==
    IF Len(a) = 0 \/ Len(mask) = 0 THEN <<>>
    ELSE IF Head(mask) THEN <<Head(a)>> \o Compress(Tail(mask), Tail(a))
    ELSE Compress(Tail(mask), Tail(a))

\* a[::-1]
Reverse(a) == [i \in 1..Len(a) |-> a[Len(a) + 1 - i]]

\* list.index(v): first position of v
Index(s, v) == CHOOSE i \in 1..Len(s) : s[i] = v /\ \A j \in 1..(i - 1) : s[j] # v

InSeq(v, s) == \E i \in 1..Len(s) : s[i] = v

\* ---------------------------------------------------------------------
\* PlotProcessor._merge_legend_handles_labels
\* ---------------------------------------------------------------------

RECURSIVE MergeLoop(_, _, _, _, _)
MergeLoop(handles, labels, i, seen_label_handles, seen_labels) ==
    IF i > Min2(Len(handles), Len(labels)) THEN <<seen_label_handles, seen_labels>>
    ELSE IF ~InSeq(labels[i], seen_labels)
    THEN MergeLoop(handles, labels, i + 1,
                   Append(seen_label_handles, <<handles[i]>>),
                   Append(seen_labels, labels[i]))
    ELSE MergeLoop(handles, labels, i + 1,
                   [seen_label_handles EXCEPT ![Index(seen_labels, labels[i])] =
                        Append(@, handles[i])],
                   seen_labels)

\* the merge with the else branch (lines 261-263) left out: a label seen again
\* does not add its handle
merge_legend_first_handle_only(handles, labels) ==
    LET r == MergeLoop(handles, labels, 1, <<>>, <<>>)
    IN  <<[i \in 1..Len(r[1]) |-> <<r[1][i][1]>>], r[2]>>

\* returns <<list of handle tuples, list of labels>>
merge_legend_handles_labels(handles, labels) ==
    MergeLoop(handles, labels, 1, <<>>, <<>>)

\* ---------------------------------------------------------------------
\* PlotProcessor._sort_legend_handles_labels
\* ---------------------------------------------------------------------

\* np.vectorize(lambda label: label in stack_labels)(ls): boolean mask
Criterion(ls, stack_labels) == [i \in 1..Len(ls) |-> InSeq(ls[i], stack_labels)]

\* positions selected by a boolean mask, ascending
MaskPositions(mask) == Compress(mask, [i \in 1..Len(mask) |-> i])

\* a[mask] = a[mask][::-1]
ReverseSelected(a, mask) ==
    LET pos == MaskPositions(mask)
        rev == Reverse([j \in 1..Len(pos) |-> a[pos[j]]])
    IN  [i \in 1..Len(a) |->
            IF mask[i] THEN rev[CHOOSE j \in 1..Len(pos) : pos[j] = i] ELSE a[i]]

\* returns [err, hs, ls]; np.vectorize refuses a size-0 input
sort_legend_handles_labels(handles, labels, stack_labels) ==
    IF Len(stack_labels) <= 1
    THEN [err |-> None, hs |-> handles, ls |-> labels]
    ELSE IF Len(labels) = 0
    THEN [err |-> "ValueError", hs |-> handles, ls |-> labels]
    ELSE LET ls2 == ReverseSelected(labels, Criterion(labels, stack_labels))
             hs2 == ReverseSelected(handles, Criterion(ls2, stack_labels))
         IN  [err |-> None, hs |-> hs2, ls |-> ls2]

\* ---------------------------------------------------------------------
\* _plot_as_step
\* A vertex coordinate is <<v>>; the no-draw sentinel np.nan is <<>>.
\* ---------------------------------------------------------------------

NaN == <<>>
Num(v) == <<v>>
IsNaN(c) == c = NaN

VSub(a, b) == IF IsNaN(a) \/ IsNaN(b) THEN NaN ELSE Num(a[1] - b[1])
VAdd(a, b) == IF IsNaN(a) \/ IsNaN(b) THEN NaN ELSE Num(a[1] + b[1])

Zeros(n) == [i \in 1..n |-> 0]
Neg(a) == [i \in 1..Len(a) |-> 0 - a[i]]

\* np.vstack([c1, c2, c3, c4, c5]).T.flatten(): the five replicas of bin 1,
\* then the five of bin 2, ...
VStack5(c) ==
    [k \in 1..(5 * Len(c[1])) |-> c[((k - 1) % 5) + 1][((k - 1) \div 5) + 1]]

\* the zero test left out: the y errors are always processed
AllClose0Never(yerr) == FALSE

\* np.allclose(yerr, 0) on a list of integer arrays
AllClose0(yerr) == \A r \in 1..Len(yerr) : \A i \in 1..Len(yerr[r]) : yerr[r][i] = 0

\* the comparison taken between the left edges of adjacent bins,
\* _x[0::5][1:] != _x[0::5][:-1]
BinEdgeDiscontinuousAtLeftEdges(xs) ==
    LET n == Len(xs) \div 5
    IN  { 5 * j : j \in { j \in 1..(n - 1) : xs[5 * j + 1] # xs[5 * (j - 1) + 1] } }

\* (np.flatnonzero(_x[0::5][1:] != _x[4::5][:-1]) + 1) * 5, as 0-based indices
BinEdgeDiscontinuousAt(xs) ==
    LET n == Len(xs) \div 5
    IN  { 5 * j : j \in { j \in 1..(n - 1) : xs[5 * j + 1] # xs[5 * (j - 1) + 5] } }

\* np.insert(a, idxs, [val]): val is put before the entry at each 0-based index
RECURSIVE InsertFrom(_, _, _, _)
InsertFrom(a, idxs, val, k) ==
    IF k > Len(a) THEN <<>>
    ELSE (IF (k - 1) \in idxs THEN <<val, a[k]>> ELSE <<a[k]>>)
         \o InsertFrom(a, idxs, val, k + 1)

Insert(a, idxs, val) == InsertFrom(a, idxs, val, 1)

Wrap(a) == [i \in 1..Len(a) |-> Num(a[i])]

\* the unpacking with the two-element case taking its first element twice
ErrorPairFirstTwice(err) == <<err[1], err[1]>>

\* "if len(err) == 1: dn = up = err[0]; else: dn, up = err": <<dn, up>>
ErrorPair(err) == IF Len(err) = 1 THEN <<err[1], err[1]>> ELSE <<err[1], err[2]>>

\* The plotting calls made by _plot_as_step(ax, x, y, xerr=, yerr=, show_yerr_as=).
\* xerr is <<e>> or <<dn, up>>; yerr is <<>> (not given), <<e>> or <<dn, up>>.
\* Returns [err, calls]; a call is [fn, x, y, yerr] or [fn, x, lo, hi].
plot_as_step(x, y, xerr, yerr, show_yerr_as) ==
    LET zeros == Zeros(Len(x))
        xerr_dn == ErrorPair(xerr)[1]
        xerr_up == ErrorPair(xerr)[2]
        yerr_dn == ErrorPair(yerr)[1]
        yerr_up == ErrorPair(yerr)[2]
        y5 == VStack5(<<y, y, y, y, y>>)
        noyerr == AllClose0(yerr)
        yerr_dn5 == IF show_yerr_as = "band"
                    THEN VStack5(<<zeros, yerr_dn, yerr_dn, yerr_dn, zeros>>)
                    ELSE VStack5(<<zeros, zeros, yerr_dn, zeros, zeros>>)
        yerr_up5 == IF show_yerr_as = "band"
                    THEN VStack5(<<zeros, yerr_up, yerr_up, yerr_up, zeros>>)
                    ELSE VStack5(<<zeros, zeros, yerr_up, zeros, zeros>>)
        x5 == ArrAdd(VStack5(<<x, x, x, x, x>>),
                     VStack5(<<Neg(xerr_dn), Neg(xerr_dn), zeros, xerr_up, xerr_up>>))
        at == BinEdgeDiscontinuousAt(x5)
        xv == Insert(Wrap(x5), at, NaN)
        yv == Insert(Wrap(y5), at, NaN)
        yerrv == IF noyerr THEN <<>>
                 ELSE <<Insert(Wrap(yerr_dn5), at, NaN), Insert(Wrap(yerr_up5), at, NaN)>>
        lo == IF noyerr THEN [i \in 1..Len(yv) |-> VSub(yv[i], Num(0))]
              ELSE [i \in 1..Len(yv) |-> VSub(yv[i], yerrv[1][i])]
        hi == IF noyerr THEN [i \in 1..Len(yv) |-> VAdd(yv[i], Num(0))]
              ELSE [i \in 1..Len(yv) |-> VAdd(yv[i], yerrv[2][i])]
    IN  IF show_yerr_as \notin {None, "errorbar", "band"}
        THEN [err |-> "ValueError", calls |-> <<>>]
        ELSE IF Len(yerr) = 0
        THEN [err |-> "TypeError", calls |-> <<>>]      \* np.allclose(None, 0)
        ELSE IF show_yerr_as = "band"
        THEN [err |-> None,
              calls |-> << [fn |-> "errorbar", x |-> xv, y |-> yv, yerr |-> <<>>],
                           [fn |-> "fill_between", x |-> xv, lo |-> lo, hi |-> hi] >>]
        ELSE [err |-> None,
              calls |-> << [fn |-> "errorbar", x |-> xv, y |-> yv,
                            yerr |-> IF show_yerr_as = None THEN <<>> ELSE yerrv] >>]

\* ---------------------------------------------------------------------
\* Bounds and input sets
\* ---------------------------------------------------------------------

\* subplots processed on one configuration object, over all its passes
MaxSeries == 2
\* figures plt.figure() may create in the figure-cache specification
MaxFigures == 4
\* bins of a step-mode input
MaxBins == 3
\* legend entries of a merge/sort input
MaxEntries == 3

PadCounts == {1, 2}
StackNames == {"s", "t"}
Labels == {"A", "B"}
Axes == {"x"}
FigNames == {"f", "g", "h"}
PlotFiles == {"f"}

\* ---------------------------------------------------------------------
\* Resolved objects (what get_expr hands back), by the fields _plot reads
\* ---------------------------------------------------------------------

\* a 1-d histogram: bin centres x, contents y, (down, up) errors yerr,
\* bin widths xwidth and, when the x axis is labelled, its bin labels
Hist(x, y, yerr, xlab) ==
    [x |-> x, y |-> y, yerr |-> yerr, xwidth |-> [i \in 1..Len(x) |-> 2],
     xlab |-> xlab, xedges |-> <<>>, is2d |-> FALSE]

\* a 2-d histogram: x, y are bin centres per axis; xedges/yedges/z exist
Hist2(n) ==
    [x |-> [i \in 1..n |-> 2 * i - 1], y |-> [i \in 1..n |-> 2 * i - 1],
     yerr |-> [i \in 1..n |-> <<1, 1>>], xwidth |-> [i \in 1..n |-> 2],
     xlab |-> <<>>, xedges |-> IF n = 0 THEN <<>> ELSE [i \in 1..(n + 1) |-> 2 * (i - 1)],
     is2d |-> TRUE]

X0 == <<1, 3>>
E1 == <<1, 1>>
ErrPairs == {<<0, 0>>, <<0, 1>>, <<1, 1>>}

H0 == Hist(X0, <<2, 2>>, <<E1, E1>>, <<>>)
HNeg == Hist(X0, <<-2, 4>>, <<E1, E1>>, <<>>)
HEmpty == Hist(<<>>, <<>>, <<>>, <<>>)

\* two-bin histograms over every combination of zero / non-zero errors
ErrObjects ==
    { Hist(X0, <<2, 4>>, <<e1, E1>>, <<>>) : e1 \in ErrPairs }
    \cup { Hist(X0, <<2, 4>>, <<<<0, 1>>, <<0, 0>>>>, <<>>),
           Hist(X0, <<2, 4>>, <<<<0, 0>>, <<0, 0>>>>, <<>>) }

\* histograms with a labelled x axis
LabelSets == { <<"a", "b">>, <<"a", "c">> }
LabelObjects ==
    { Hist(X0, <<2, 2>>, <<E1, E1>>, l) : l \in LabelSets }
    \cup { Hist(<<2, 4>>, <<2, 2>>, <<E1, E1>>, <<"a", "b">>) }
LabelErrObject == Hist(X0, <<2, 2>>, <<E1, <<0, 0>>>>, <<"a", "b">>)

\* ---------------------------------------------------------------------
\* Subplot configuration entries: the options _plot pops, and the object
\* the expression resolves to.  Each family varies some options and leaves
\* the others at their defaults.
\* ---------------------------------------------------------------------

Dflt == [pad |-> 0, stack |-> None, label |-> None, plot_method |-> "errorbar",
         mask_zero_errors |-> FALSE, normalize_to_width |-> FALSE, obj |-> H0]

StackInputs ==
    { [Dflt EXCEPT !.stack = "s", !.plot_method = m, !.normalize_to_width = nf] :
        m \in {"bar", "errorbar"}, nf \in BOOLEAN }
    \cup { [Dflt EXCEPT !.stack = "t"] }
    \cup { [Dflt EXCEPT !.stack = "s", !.obj = HNeg] }
    \cup { [Dflt EXCEPT !.pad = 1, !.stack = "s"] }

LabelInputs ==
    { [Dflt EXCEPT !.stack = s, !.label = l] : s \in {None, "s"}, l \in Labels }
    \cup { [Dflt EXCEPT !.stack = "s", !.label = l, !.obj = HEmpty] : l \in Labels }
    \cup { [Dflt EXCEPT !.stack = "s", !.label = "A", !.plot_method = "bar", !.obj = HEmpty] }

MaskInputs ==
    { [Dflt EXCEPT !.mask_zero_errors = TRUE, !.obj = o] : o \in ErrObjects \cup {HEmpty} }
    \cup { [Dflt EXCEPT !.mask_zero_errors = TRUE, !.stack = "s", !.obj = o] :
        o \in { Hist(X0, <<2, 4>>, <<e1, E1>>, <<>>) : e1 \in {<<0, 0>>, E1} } }

BinLabelInputs ==
    { [Dflt EXCEPT !.obj = o] : o \in LabelObjects }
    \cup { [Dflt EXCEPT !.mask_zero_errors = TRUE, !.obj = LabelErrObject] }

MeshInputs ==
    { [Dflt EXCEPT !.plot_method = "pcolormesh", !.obj = Hist2(2)] }

PadInputs == { [Dflt EXCEPT !.pad = p] : p \in {-2, -1, 0, 1, 2} }

SubplotInputs ==
    StackInputs \cup LabelInputs \cup MaskInputs \cup BinLabelInputs
    \cup MeshInputs \cup PadInputs

\* ---------------------------------------------------------------------
\* Per-pad state kept in the pad's configuration dict, and the Axes object
\* ---------------------------------------------------------------------

\* a value of the stack_bottoms dict: key absent, the float 0.0 put there by
\* setdefault, or a numpy array
Absent == [k |-> "absent", a |-> <<>>]
Float0 == [k |-> "float", a |-> <<0>>]
Arr(a) == [k |-> "array", a |-> a]

\* a pad configuration dict as written by the user: none of the keys that
\* _plot adds with setdefault are present
NewPadConfig ==
    [has_keys |-> FALSE,
     stack_bottoms |-> [s \in StackNames |-> Absent],
     stack_labels |-> <<>>,
     bin_labels |-> [a \in Axes |-> <<>>],
     bin_label_anchors |-> [a \in Axes |-> <<>>],
     plots2d |-> <<>>]

\* a new Axes from fig.add_subplot: no artists, no legend, no color bars
NewAxes ==
    [artists |-> <<>>, legend |-> <<>>, colorbars |-> <<>>, ticklabels |-> <<>>,
     assembled |-> 0]

\* the setdefault calls for 'stack_bottoms', 'bin_labels', 'bin_label_anchors'
SetDefaults(pc_) == [pc_ EXCEPT !.has_keys = TRUE]

\* ---------------------------------------------------------------------
\* PlotProcessor._plot, step 2: the body of the loop over the subplots
\* ---------------------------------------------------------------------

\* mask of the points kept by 'mask_zero_errors'
ZeroErrorMask(yerr) == [i \in 1..Len(yerr) |-> yerr[i][1] # 0 /\ yerr[i][2] # 0]

\* _plot_data after extraction and masking; xlab.nd tells that the label list
\* went through np.compress and is an ndarray
PlotData(cfg) ==
    LET o == cfg.obj
        raw == [x |-> o.x, y |-> o.y, yerr |-> o.yerr, xwidth |-> o.xwidth,
                xlab |-> [l |-> o.xlab, nd |-> FALSE]]
        mask == ZeroErrorMask(o.yerr)
    IN  IF cfg.mask_zero_errors /\ Len(o.yerr) # 0
        THEN [x |-> Compress(mask, raw.x), y |-> Compress(mask, raw.y),
              yerr |-> Compress(mask, raw.yerr), xwidth |-> Compress(mask, raw.xwidth),
              xlab |-> [l |-> Compress(mask, o.xlab), nd |-> Len(o.xlab) # 0]]
        ELSE raw

\* _plot_data when no object was resolved
NoPlotData ==
    [x |-> <<>>, y |-> <<>>, yerr |-> <<>>, xwidth |-> <<>>,
     xlab |-> [l |-> <<>>, nd |-> FALSE]]

\* the pad id ignored: _pad_configs[0] taken for every subplot
PadPosFirst(pad_id, n) == 1

\* position (1-based) of the pad a valid pad id selects; Python indexes a list
\* from its end with a negative id
PadPos(pad_id, n) == IF pad_id >= 0 THEN pad_id + 1 ELSE n + pad_id + 1

\* _stack_bottoms[_stack_name] += y
AddInPlaceOK(entry, y) == entry.k = "float" \/ Len(y) = Len(entry.a) \/ Len(y) = 1
\* the update written as an assignment, _stack_bottoms[_stack_name] = y
AddInPlaceAssign(entry, y) == Arr(y)
\* the update with the sign turned, _stack_bottoms[_stack_name] -= y
AddInPlaceSubtract(entry, y) ==
    IF entry.k = "float" THEN Arr(y) ELSE Arr([i \in 1..Len(entry.a) |-> entry.a[i] - At(y, i)])
AddInPlace(entry, y) == IF entry.k = "float" THEN Arr(y) ELSE Arr(ArrAdd(entry.a, y))

\* the rendering library accepts the positional and baseline arrays
DrawShapesOK(method, x, y_data, bottom) ==
    IF method = "pcolormesh" THEN TRUE
    ELSE IF method = "bar" THEN Len(bottom) = 1 \/ Len(bottom) = Len(x)
    ELSE Len(x) = Len(y_data)

\* One pass through the loop body for configuration entry cfg.
\* st is [pads, axes, draws, resolved]; the result adds plot_data (the loop's
\* _plot_data as the iteration leaves it) and status: "ok" (drawn), "skip"
\* (continue), or the exception raised.
SubplotBody(cfg, st) ==
    LET n == Len(st.pads)
        pos == PadPos(cfg.pad, n)
        pc0 == SetDefaults(st.pads[pos])
        pd == PlotData(cfg)
        stacked == cfg.stack # None
        \* handle stacking
        sb1 == IF stacked /\ pc0.stack_bottoms[cfg.stack].k = "absent"
               THEN [pc0.stack_bottoms EXCEPT ![cfg.stack] = Float0]
               ELSE pc0.stack_bottoms
        y_bottom == IF stacked THEN sb1[cfg.stack] ELSE Float0
        sl1 == IF stacked /\ cfg.label # None
               THEN Append(pc0.stack_labels, cfg.label) ELSE pc0.stack_labels
        pc1 == [pc0 EXCEPT !.stack_bottoms = sb1, !.stack_labels = sl1]
        isbar == cfg.plot_method = "bar"
        addOK == isbar \/ Broadcastable(Len(pd.y), Len(y_bottom.a))
        kw_y == IF isbar THEN pd.y ELSE ArrAdd(pd.y, y_bottom.a)
        \* normalize_to_width: _y_data /= xwidth works in place; for 'bar'
        \* _y_data is _plot_data['y'] itself
        y_data == IF cfg.normalize_to_width THEN ArrDiv(kw_y, pd.xwidth) ELSE kw_y
        pd_y == IF isbar THEN y_data ELSE pd.y
        args0 == IF cfg.plot_method = "pcolormesh" THEN cfg.obj.xedges ELSE pd.x
        handle == Len(st.draws) + 1
        draw == [pos |-> pos, cfg |-> cfg, x |-> args0, y |-> y_data,
                 bottom |-> y_bottom, yraw |-> pd.y, xwidth |-> pd.xwidth,
                 xlab |-> pd.xlab.l, anchors |-> pd.x]
        ax1 == [st.axes[pos] EXCEPT
                  !.artists = IF cfg.label # None
                              THEN Append(@, [h |-> handle, l |-> cfg.label]) ELSE @]
        pc2 == [pc1 EXCEPT
                  !.plots2d = IF cfg.plot_method = "pcolormesh" THEN Append(@, handle) ELSE @]
        updOK == ~stacked \/ AddInPlaceOK(y_bottom, pd_y)
        pc3 == [pc2 EXCEPT
                  !.stack_bottoms = IF stacked
                                    THEN [@ EXCEPT ![cfg.stack] = AddInPlace(y_bottom, pd_y)]
                                    ELSE @]
        pc4 == [pc3 EXCEPT
                  !.bin_labels = IF Len(cfg.obj.xlab) # 0
                                 THEN [@ EXCEPT !["x"] = Append(@, pd.xlab)] ELSE @,
                  !.bin_label_anchors = IF Len(cfg.obj.xlab) # 0
                                        THEN [@ EXCEPT !["x"] = Append(@, pd.x)] ELSE @]
        Out(status, p, a, d, y) ==
            [status |-> status,
             pads |-> [st.pads EXCEPT ![pos] = p],
             axes |-> [st.axes EXCEPT ![pos] = a],
             draws |-> d, resolved |-> st.resolved + 1,
             plot_data |-> [pd EXCEPT !.y = y]]
        Raise(exc) ==
            [status |-> exc, pads |-> st.pads, axes |-> st.axes, draws |-> st.draws,
             resolved |-> st.resolved, plot_data |-> NoPlotData]
    IN  IF cfg.pad >= n THEN Raise("ValueError")
        ELSE IF pos < 1 THEN Raise("IndexError")
        ELSE IF ~addOK
        THEN Out("ValueError", pc1, st.axes[pos], st.draws, pd.y)
        ELSE IF Len(args0) = 0
        THEN Out("skip", pc1, st.axes[pos], st.draws, pd_y)
        ELSE IF ~DrawShapesOK(cfg.plot_method, pd.x, y_data, y_bottom.a)
        THEN Out("ValueError", pc1, st.axes[pos], st.draws, pd_y)
        ELSE IF ~updOK
        THEN Out("ValueError", pc2, ax1, Append(st.draws, draw), pd_y)
        ELSE Out("ok", pc4, ax1, Append(st.draws, draw), pd_y)

\* ---------------------------------------------------------------------
\* PlotProcessor._plot, step 3: pad adjustments for one pad
\* ---------------------------------------------------------------------

\* "False in [_bl_sets[i] == _bl_sets[0] ...]": two lists compare to a bool;
\* once np.compress made one of them an ndarray the comparison is elementwise,
\* and a result of more than one element has no truth value (ValueError too)
LabelsDiffer(a, b) ==
    IF a.nd \/ b.nd
    THEN Len(a.l) # Len(b.l) \/ Len(a.l) > 1 \/ a.l # b.l
    ELSE a.l # b.l

\* the check without its elif branch (lines 691-692): anchors are not compared
BinLabelsRaiseLabelsOnly(bl_sets, ba_sets) ==
    /\ Len(bl_sets) > 1
    /\ \E i \in 2..Len(bl_sets) : LabelsDiffer(bl_sets[i], bl_sets[1])

\* the bin-label consistency check of one axis raises
BinLabelsRaise(bl_sets, ba_sets) ==
    /\ Len(bl_sets) > 1
    /\ \/ \E i \in 2..Len(bl_sets) : LabelsDiffer(bl_sets[i], bl_sets[1])
       \/ \E i \in 2..Len(ba_sets) : ba_sets[i] # ba_sets[1]

\* the body of the loop over the pads, for the pad at position p;
\* st is [status, pads, axes]; the result is [status, axes]
PadBody(p, st) ==
    LET pc_ == st.pads[p]
        ax0 == [st.axes[p] EXCEPT !.colorbars = pc_.plots2d]
        hs == [i \in 1..Len(ax0.artists) |-> ax0.artists[i].h]
        ls == [i \in 1..Len(ax0.artists) |-> ax0.artists[i].l]
        sorted == sort_legend_handles_labels(hs, ls, pc_.stack_labels)
        merged == merge_legend_handles_labels(sorted.hs, sorted.ls)
        ax1 == [ax0 EXCEPT !.legend = <<merged>>]
        bl_sets == pc_.bin_labels["x"]
        ba_sets == pc_.bin_label_anchors["x"]
        ax2 == [ax1 EXCEPT !.ticklabels = IF Len(bl_sets) = 0 THEN @ ELSE bl_sets[1].l,
                           !.assembled = @ + 1]
    IN  IF sorted.err # None
        THEN [status |-> sorted.err, axes |-> [st.axes EXCEPT ![p] = ax0]]
        ELSE IF ~pc_.has_keys
        THEN [status |-> "KeyError", axes |-> [st.axes EXCEPT ![p] = ax1]]
        ELSE IF BinLabelsRaise(bl_sets, ba_sets)
        THEN [status |-> "ValueError", axes |-> [st.axes EXCEPT ![p] = ax1]]
        ELSE [status |-> "ok", axes |-> [st.axes EXCEPT ![p] = ax2]]

\* the loop over the pads from position p on; it stops at the first raise
RECURSIVE PadsLoop(_, _)
PadsLoop(p, st) ==
    IF p > Len(st.pads) THEN st
    ELSE LET r == PadBody(p, st)
         IN  IF r.status # "ok"
             THEN [st EXCEPT !.status = r.status, !.axes = r.axes]
             ELSE PadsLoop(p + 1, [st EXCEPT !.axes = r.axes])

\* ---------------------------------------------------------------------
\* PlotProcessor._get_figure / clear_figures
\* figures maps a name to the figure cached for it, 0 when there is none;
\* plt.figure() hands out figure nextFig
\* ---------------------------------------------------------------------

\* _get_figure without the membership test: a figure is created on every call
get_figure_uncached(figs, next, figure_name) ==
    [fig |-> next, figures |-> [figs EXCEPT ![figure_name] = next],
     nextFig |-> next + 1, created |-> TRUE]

\* returns [fig, figures, nextFig, created]
get_figure(figs, next, figure_name) ==
    IF figs[figure_name] = 0
    THEN [fig |-> next, figures |-> [figs EXCEPT ![figure_name] = next],
          nextFig |-> next + 1, created |-> TRUE]
    ELSE [fig |-> figs[figure_name], figures |-> figs, nextFig |-> next,
          created |-> FALSE]

\* ---------------------------------------------------------------------
\* State
\* ---------------------------------------------------------------------

VARIABLES
    pc,         \* position of _plot: "idle" or "subplots" (in the loop)
    pads,       \* config['pads']: the pad configuration dicts
    axes,       \* the Axes object of each pad (key 'axes')
    draws,      \* the draw calls made for this configuration object, in order
    base,       \* Len(draws) when the running pass started
    k,          \* subplots of config['subplots'] processed in this pass
    used,       \* subplots processed on this configuration object so far
    cur,        \* the loop's subplot entry (Dflt outside the loop)
    plot_data,  \* the loop's _plot_data as the last iteration left it
    status,     \* "running", or how the last pass ended: "ok" or the exception
    resolved,   \* get_expr calls of this pass
    locals,     \* the input controller holds registered locals
    saved,      \* savefig was called in this pass
    fig,        \* the figure of this pass
    figures,    \* self._figures
    nextFig,    \* the next figure plt.figure() creates
    text,       \* the text output of the pass: requested or not, and the entries written
    ret,        \* the last call on the figure cache and what it returned
    lg,         \* legend helper input and output (legend specification)
    sp          \* _plot_as_step input and output (step specification)

vars == <<pc, pads, axes, draws, base, k, used, cur, plot_data, status, resolved,
          locals, saved, fig, text, figures, nextFig, ret, lg, sp>>

plotvars == <<pc, pads, axes, draws, base, k, used, cur, plot_data, status, resolved,
              locals, saved, fig, text>>

NoFigures == [m \in FigNames |-> 0]

\* ret after a _get_figure call that returned f: ret.last[m] is the figure the
\* latest request for m returned since the cache was last cleared (0: none)
RetOfGet(f, name) ==
    [op |-> "get", name |-> name, fig |-> f.fig, created |-> f.created,
     last |-> [ret.last EXCEPT ![name] = f.fig]]

NoText == [on |-> FALSE, entries |-> <<>>]

InitPlot ==
    /\ pc = "idle"
    /\ pads = <<>>
    /\ axes = <<>>
    /\ draws = <<>>
    /\ base = 0
    /\ k = 0
    /\ used = 0
    /\ cur = Dflt
    /\ plot_data = NoPlotData
    /\ status = "ok"
    /\ resolved = 0
    /\ locals = FALSE
    /\ saved = FALSE
    /\ fig = 0
    /\ text = NoText

InitFigures ==
    /\ figures = NoFigures
    /\ nextFig = 1
    /\ ret = [op |-> "none", name |-> None, fig |-> 0, created |-> FALSE,
              last |-> NoFigures]

NoLegend == [op |-> "none", handles |-> <<>>, labels |-> <<>>, stack_labels |-> <<>>,
             err |-> None, hs |-> <<>>, ls |-> <<>>, mh |-> <<>>, ml |-> <<>>]

NoStep == [op |-> "none", x |-> <<>>, y |-> <<>>, xerr |-> <<>>, yerr |-> <<>>,
           show_yerr_as |-> None, err |-> None, calls |-> <<>>]

Init ==
    /\ InitPlot
    /\ InitFigures
    /\ lg = NoLegend
    /\ sp = NoStep

\* ---------------------------------------------------------------------
\* _plot as a sequence of steps
\* ---------------------------------------------------------------------

\* config.pop("text_output", False): what a new configuration object may
\* carry; an object that was plotted before has lost the key
TextOutputs(fresh) == IF fresh THEN BOOLEAN ELSE {FALSE}

\* the entry written for every entry of the subplot list that did not raise,
\* drawn or skipped (the write placed before the skip test)
TextWriteAlways(t, st, ds) ==
    IF t.on /\ st \in {"ok", "skip"}
    THEN [t EXCEPT !.entries = Append(@, Len(ds))] ELSE t

\* "if _text_file is not None: _text_file.write(...)": the line comes after
\* the draw call and before the stack update, so it is reached exactly when
\* the iteration made its draw call; ds are the draws after the iteration, st
\* is how the iteration ended.  An entry is the handle that was drawn.
TextWrite(t, st, ds) ==
    IF t.on /\ Len(ds) > Len(draws)
    THEN [t EXCEPT !.entries = Append(@, Len(ds))] ELSE t

\* Entry of _plot up to the loop over the subplots: register the locals, get
\* the figure, create the Axes of every pad, setdefault on the last pad.
\* fresh: config is a new configuration object with n pads;
\* otherwise it is the object of the previous pass, passed in again.
PlotStart(fresh, n, fname) ==
    /\ pc = "idle"
    /\ fresh \/ Len(pads) = n
    /\ LET f == get_figure(figures, nextFig, fname)
           p0 == IF fresh THEN [i \in 1..n |-> NewPadConfig] ELSE pads
       IN  /\ f.created => nextFig <= MaxFigures
           /\ figures' = f.figures
           /\ nextFig' = f.nextFig
           /\ fig' = f.fig
           /\ ret' = RetOfGet(f, fname)
           /\ pads' = [p0 EXCEPT ![n] = SetDefaults(@)]
    /\ axes' = [i \in 1..n |-> NewAxes]
    /\ draws' = IF fresh THEN <<>> ELSE draws
    /\ base' = IF fresh THEN 0 ELSE Len(draws)
    /\ used' = IF fresh THEN 0 ELSE used
    /\ k' = 0
    /\ resolved' = 0
    /\ locals' = TRUE
    /\ saved' = FALSE
    /\ status' = "running"
    /\ pc' = "subplots"
    /\ cur' = Dflt
    /\ plot_data' = NoPlotData
    /\ \E text_output \in TextOutputs(fresh) : text' = [on |-> text_output, entries |-> <<>>]
    /\ UNCHANGED <<lg, sp>>

\* the loop body inside a try/except that logs the exception and goes on to
\* the next entry
SubplotStepSwallow(cfg) ==
    LET r == SubplotBody(cfg, [pads |-> pads, axes |-> axes, draws |-> draws,
                               resolved |-> resolved])
        raised == r.status \notin {"ok", "skip"}
    IN  /\ pads' = r.pads
        /\ axes' = r.axes
        /\ draws' = r.draws
        /\ resolved' = r.resolved
        /\ plot_data' = r.plot_data
        /\ status' = IF raised THEN r.status ELSE status
        /\ pc' = "subplots"
        /\ cur' = cfg
        /\ k' = k + 1
        /\ used' = used + 1
        /\ text' = TextWrite(text, r.status, r.draws)

\* The loop body applied to the state, for the entry cfg.
SubplotStep(cfg) ==
    LET r == SubplotBody(cfg, [pads |-> pads, axes |-> axes, draws |-> draws,
                               resolved |-> resolved])
        raised == r.status \notin {"ok", "skip"}
    IN  /\ pads' = r.pads
        /\ axes' = r.axes
        /\ draws' = r.draws
        /\ resolved' = r.resolved
        /\ plot_data' = r.plot_data
        /\ status' = IF raised THEN r.status ELSE status
        /\ pc' = IF raised THEN "idle" ELSE "subplots"
        /\ cur' = cfg
        /\ k' = k + 1
        /\ used' = used + 1
        /\ text' = TextWrite(text, r.status, r.draws)

\* One iteration of the loop over config['subplots'], for its next entry.
\* The length of the list is left open until the loop ends (PlotFinish).
PlotSubplot ==
    /\ pc = "subplots"
    /\ used < MaxSeries
    /\ \E cfg \in SubplotInputs : SubplotStep(cfg)
    /\ UNCHANGED <<base, locals, saved, fig, figures, nextFig, ret, lg, sp>>

\* The entries of config['subplots'] are exhausted.  Steps 3 to 6: the loop
\* over the pads, then save the figure and de-register the locals.
PlotFinish ==
    /\ pc = "subplots"
    /\ LET r == PadsLoop(1, [status |-> "ok", pads |-> pads, axes |-> axes])
           raised == r.status # "ok"
       IN  /\ axes' = r.axes
           /\ status' = r.status
           /\ saved' = ~raised
           /\ locals' = raised
    /\ pc' = "idle"
    /\ cur' = Dflt
    /\ plot_data' = NoPlotData
    /\ UNCHANGED <<pads, draws, base, k, used, resolved,
                   fig, text, figures, nextFig, ret, lg, sp>>

Next ==
    \/ \E fresh \in BOOLEAN, n \in PadCounts, fname \in PlotFiles :
          PlotStart(fresh, n, fname)
    \/ PlotSubplot
    \/ PlotFinish

Spec == Init /\ [][Next]_vars

\* ---------------------------------------------------------------------
\* The figure cache on its own: requests and clear_figures in any order
\* ---------------------------------------------------------------------

\* a call self._get_figure(name), from _plot or from anywhere else
GetFigure(name) ==
    /\ LET f == get_figure(figures, nextFig, name)
       IN  /\ f.created => nextFig <= MaxFigures
           /\ figures' = f.figures
           /\ nextFig' = f.nextFig
           /\ ret' = RetOfGet(f, name)
    /\ UNCHANGED <<plotvars, lg, sp>>

\* clear_figures(): close every cached figure and empty the cache
ClearFigures ==
    /\ figures' = NoFigures
    /\ ret' = [op |-> "clear", name |-> None, fig |-> 0, created |-> FALSE,
               last |-> NoFigures]
    /\ UNCHANGED <<plotvars, nextFig, lg, sp>>

NextFigures ==
    \/ \E name \in FigNames : GetFigure(name)
    \/ ClearFigures

SpecFigures == Init /\ [][NextFigures]_vars

\* ---------------------------------------------------------------------
\* The legend helpers on their own, over bounded inputs
\* ---------------------------------------------------------------------

LegendLabels == {"A", "B", "C"}

SeqsUpTo(S, n) == UNION { [1..m -> S] : m \in 0..n }

\* handles are distinct artists: 1, 2, ...
LegendInputs ==
    { [op |-> "in", handles |-> [i \in 1..Len(l) |-> i], labels |-> l,
       stack_labels |-> sl, err |-> None, hs |-> [i \in 1..Len(l) |-> i], ls |-> l,
       mh |-> <<>>, ml |-> <<>>] :
        l \in SeqsUpTo(LegendLabels, MaxEntries), sl \in SeqsUpTo(LegendLabels, MaxEntries) }

InitLegend ==
    /\ InitPlot
    /\ InitFigures
    /\ sp = NoStep
    /\ lg \in LegendInputs

\* hs, ls = _sort_legend_handles_labels(handles, labels, stack_labels)
SortLegend ==
    /\ lg.op = "in"
    /\ LET r == sort_legend_handles_labels(lg.handles, lg.labels, lg.stack_labels)
       IN  lg' = [lg EXCEPT !.op = "sorted", !.err = r.err, !.hs = r.hs, !.ls = r.ls]
    /\ UNCHANGED <<plotvars, figures, nextFig, ret, sp>>

\* _merge_legend_handles_labels(hs, ls), on the lists as given or as sorted
MergeLegend ==
    /\ lg.op \in {"in", "sorted"}
    /\ lg.err = None
    /\ LET r == merge_legend_handles_labels(lg.hs, lg.ls)
       IN  lg' = [lg EXCEPT !.op = "merged", !.mh = r[1], !.ml = r[2]]
    /\ UNCHANGED <<plotvars, figures, nextFig, ret, sp>>

NextLegend == SortLegend \/ MergeLegend

SpecLegend == InitLegend /\ [][NextLegend]_vars

\* ---------------------------------------------------------------------
\* _plot_as_step on its own, over bounded inputs
\* ---------------------------------------------------------------------

XVals == {0, 2, 3}
HalfWidths == {0, 1}
ShowYerrAs == {None, "errorbar", "band", "bars"}

StepIn(x, y, xerr, yerr, show) ==
    [op |-> "in", x |-> x, y |-> y, xerr |-> xerr, yerr |-> yerr,
     show_yerr_as |-> show, err |-> None, calls |-> <<>>]

Ones(n) == [i \in 1..n |-> 1]

\* xerr as the function takes it: one array for both sides, or (down, up)
XerrChoices(n) ==
    { <<e>> : e \in [1..n -> HalfWidths] }
    \cup { <<d, u>> : d \in [1..n -> HalfWidths], u \in [1..n -> HalfWidths] }

\* yerr as the function takes it: not given, one array, or (down, up)
YerrChoices(n) == {<<>>} \cup XerrChoices(n)

\* the inputs: every bin geometry with unit y errors, and every y error and
\* option over two bin geometries (bins that meet, bins one apart)
InitStep ==
    /\ InitPlot
    /\ InitFigures
    /\ lg = NoLegend
    /\ \E n \in 0..MaxBins :
          \/ \E x \in [1..n -> XVals], xe \in XerrChoices(n) :
                sp = StepIn(x, Ones(n), xe, <<Ones(n)>>, "errorbar")
          \/ /\ n >= 1
             /\ \E g \in {0, 1}, ye \in YerrChoices(n), show \in ShowYerrAs :
                   sp = StepIn([i \in 1..n |-> 2 * i + g * (i - 1)], [i \in 1..n |-> 2 + i],
                               <<Ones(n)>>, ye, show)

\* _plot_as_step(ax, x, y, xerr=xerr, yerr=yerr, show_yerr_as=show_yerr_as)
PlotAsStep ==
    /\ sp.op = "in"
    /\ LET r == plot_as_step(sp.x, sp.y, sp.xerr, sp.yerr, sp.show_yerr_as)
       IN  sp' = [sp EXCEPT !.op = "out", !.err = r.err, !.calls = r.calls]
    /\ UNCHANGED <<plotvars, figures, nextFig, ret, lg>>

NextStep == PlotAsStep

SpecStep == InitStep /\ [][NextStep]_vars

\* =====================================================================
\* Properties
\* =====================================================================

\* ---------------------------------------------------------------------
\* Stacking (specification Spec)
\* ---------------------------------------------------------------------

\* the draws made into stack s of the pad at position pos, in order
StackDraws(pos, s) == SelectSeq(draws, LAMBDA d : d.pos = pos /\ d.cfg.stack = s)

\* what series d adds to its stack: for a 'bar' series with normalize_to_width
\* the y array was divided by the bin widths in place before the update
Contribution(d) ==
    IF d.cfg.plot_method = "bar" /\ d.cfg.normalize_to_width
    THEN ArrDiv(d.yraw, d.xwidth) ELSE d.yraw

Term(d, raw) == IF raw THEN d.yraw ELSE Contribution(d)

\* element i of the sum of the first n terms
RECURSIVE SumAt(_, _, _, _)
SumAt(ds, n, i, raw) ==
    IF n = 0 THEN 0 ELSE SumAt(ds, n - 1, i, raw) + Term(ds[n], raw)[i]

PartialSum(ds, n, raw) == [i \in 1..Len(ds[1].yraw) |-> SumAt(ds, n, i, raw)]

SameLength(ds) == \A j \in 1..Len(ds) : Len(ds[j].yraw) = Len(ds[1].yraw)

\* For every stack whose series all have the same number of points: the
\* recorded stack-bottom is the sum of the terms of all series drawn into it,
\* and series j was drawn from the sum of the terms of series 1..j-1.
StackSums(raw) ==
    \A pos \in 1..Len(pads), s \in StackNames :
        LET ds == StackDraws(pos, s)
        IN  (Len(ds) > 0 /\ SameLength(ds)) =>
                /\ pads[pos].stack_bottoms[s] = Arr(PartialSum(ds, Len(ds), raw))
                /\ \A j \in 1..Len(ds) :
                      ds[j].bottom = IF j = 1 THEN Float0
                                     ELSE Arr(PartialSum(ds, j - 1, raw))

\* C1 (as amended): for any pad and stack name, over all series drawn into that
\* stack on the pad's configuration dict, the recorded stack-bottom is the
\* elementwise sum of the series' contributions and the baseline of series j is
\* the sum of the contributions of series 1..j-1 (the float 0.0 for j = 1); the
\* contribution is y, except for a 'bar' series with normalize_to_width, where
\* it is y divided by the bin widths.
C1_StackBottomIsSumOfContributions == StackSums(FALSE)

\* C1 witness: two series in one stack, the first a width-normalized bar
\* (y = [2,2], widths 2), the second with y = [2,2]: the bottom is [3,3]
C1_Witness ==
    LET ds == StackDraws(1, "s")
    IN  /\ Len(ds) = 2
        /\ ds[1].cfg.plot_method = "bar" /\ ds[1].cfg.normalize_to_width
        /\ ds[1].yraw = <<2, 2>> /\ ds[2].yraw = <<2, 2>>
        /\ pads[1].stack_bottoms["s"] = Arr(<<3, 3>>)
        /\ ds[2].bottom = Arr(<<1, 1>>)

\* C1 as stated: the recorded stack-bottom is y1+...+yN of the resolved
\* y-arrays, and the baseline of series k is y1+...+y(k-1)
C1_StackBottomIsSumOfY == StackSums(TRUE)

\* ---------------------------------------------------------------------
\* mask_zero_errors (specification Spec)
\* ---------------------------------------------------------------------

\* the points the filter is said to keep: at least one error component non-zero
KeepUnlessAllZero(yerr) ==
    [i \in 1..Len(yerr) |-> ~(yerr[i][1] = 0 /\ yerr[i][2] = 0)]

\* C2: with mask_zero_errors the filter removes exactly the points whose
\* (down, up) y errors are both zero; the points kept stay in order in x, y,
\* yerr and xwidth.
C2_MaskRemovesExactlyAllZeroErrors ==
    cur.mask_zero_errors =>
        LET keep == KeepUnlessAllZero(cur.obj.yerr)
        IN  /\ plot_data.x = Compress(keep, cur.obj.x)
            /\ plot_data.y = Compress(keep, cur.obj.y)
            /\ plot_data.yerr = Compress(keep, cur.obj.yerr)
            /\ plot_data.xwidth = Compress(keep, cur.obj.xwidth)

\* ---------------------------------------------------------------------
\* Skipped subplots (specification Spec)
\* ---------------------------------------------------------------------

\* C3: a subplot whose resolved x-array is empty makes no draw call and leaves
\* the pad's stack-bottom mapping, its stack-label list and its legend entries
\* as they were before the subplot was processed.
C3_EmptySubplotLeavesPadUntouched ==
    [][ (k' = k + 1 /\ cur'.pad \in 0..(Len(pads) - 1) /\ Len(cur'.obj.x) = 0) =>
            /\ draws' = draws
            /\ pads'[cur'.pad + 1].stack_bottoms = pads[cur'.pad + 1].stack_bottoms
            /\ pads'[cur'.pad + 1].stack_labels = pads[cur'.pad + 1].stack_labels
            /\ axes'[cur'.pad + 1].artists = axes[cur'.pad + 1].artists ]_vars

\* ---------------------------------------------------------------------
\* Figure cache (specification SpecFigures)
\* ---------------------------------------------------------------------

\* C4: a request for a name that was requested since the cache was last
\* cleared returns the same figure and creates none; a request for a name not
\* requested since then (never, or not since clear_figures) creates a figure
\* that no request returned before; clear_figures leaves the cache empty.
C4_FigureCache ==
    [][ /\ ret'.op = "get" =>
            IF ret.last[ret'.name] # 0
            THEN /\ ret'.fig = ret.last[ret'.name]
                 /\ ~ret'.created
                 /\ nextFig' = nextFig
            ELSE /\ ret'.created
                 /\ ret'.fig = nextFig
                 /\ nextFig' = nextFig + 1
                 /\ \A m \in FigNames : ret.last[m] < ret'.fig
        /\ ret'.op = "clear" => \A m \in FigNames : figures'[m] = 0 ]_vars

\* C4 witness: a request answered from the cache with a figure that was
\* created after the cache had been cleared (figure 4 of at most 3 names)
C4_Witness == ret.op = "get" /\ ~ret.created /\ ret.fig = 4

\* ---------------------------------------------------------------------
\* Legend helpers (specification SpecLegend)
\* ---------------------------------------------------------------------

SeqSet(s) == { s[i] : i \in 1..Len(s) }

FirstAt(s, v) == CHOOSE i \in 1..Len(s) : s[i] = v /\ \A j \in 1..(i - 1) : s[j] # v

RECURSIVE SumLen(_)
SumLen(ss) == IF Len(ss) = 0 THEN 0 ELSE Len(Head(ss)) + SumLen(Tail(ss))

\* C5: the merge returns one entry per distinct label, in order of first
\* occurrence; the handles of an entry are exactly the input handles carrying
\* its label, one per contributing series, and the sizes add up to the input
\* length.
C5_MergeOneEntryPerLabel ==
    lg.op = "merged" =>
        /\ Len(lg.mh) = Len(lg.ml)
        /\ SeqSet(lg.ml) = SeqSet(lg.ls)
        /\ \A i, j \in 1..Len(lg.ml) :
              i < j => /\ lg.ml[i] # lg.ml[j]
                       /\ FirstAt(lg.ls, lg.ml[i]) < FirstAt(lg.ls, lg.ml[j])
        /\ \A e \in 1..Len(lg.ml) :
              /\ SeqSet(lg.mh[e]) = { lg.hs[i] : i \in { i \in 1..Len(lg.ls) : lg.ls[i] = lg.ml[e] } }
              /\ Len(lg.mh[e]) = Cardinality({ i \in 1..Len(lg.ls) : lg.ls[i] = lg.ml[e] })
        /\ SumLen(lg.mh) = Len(lg.ls)

\* C5 witness: three entries, two of them with the same label, merged into two
C5_Witness ==
    /\ lg.op = "merged"
    /\ lg.ls = <<"A", "B", "A">>
    /\ lg.ml = <<"A", "B">>
    /\ Len(lg.mh[1]) = 2

\* C6: the sort reverses the relative order of the entries whose label is a
\* registered stack label, leaves the other entries in place and keeps each
\* handle with its label, and it does so only if more than one distinct stack
\* label is registered; otherwise handles and labels come back unchanged.
C6_SortReversesOnlyForDistinctStackLabels ==
    (lg.op = "sorted" /\ lg.err = None) =>
        LET S == SeqSet(lg.stack_labels)
            n == Len(lg.labels)
            sel == { i \in 1..n : lg.labels[i] \in S }
            \* the position that holds, after the reversal, the entry of position i
            Mirror(i) == CHOOSE j \in sel :
                            Cardinality({ a \in sel : a > j }) = Cardinality({ a \in sel : a < i })
        IN  IF Cardinality(S) > 1
            THEN /\ Len(lg.hs) = n /\ Len(lg.ls) = n
                 /\ \A i \in (1..n) \ sel : lg.hs[i] = lg.handles[i] /\ lg.ls[i] = lg.labels[i]
                 /\ \A i \in sel : /\ lg.hs[Mirror(i)] = lg.handles[i]
                                   /\ lg.ls[Mirror(i)] = lg.labels[i]
            ELSE lg.hs = lg.handles /\ lg.ls = lg.labels

\* ---------------------------------------------------------------------
\* Pad index (specification Spec)
\* ---------------------------------------------------------------------

\* C7: a subplot whose pad index is not in 0..n-1 makes _plot raise (the
\* ValueError of the range check, or any other exception) before its data is
\* resolved or drawn, and a subplot is drawn only into the pad at the position
\* of its declared index.
C7_PadIndexOutsideRangeIsRejected ==
    [][ k' = k + 1 =>
            /\ (cur'.pad \notin 0..(Len(pads) - 1)) =>
                   (status' \in {"ValueError", "IndexError"} /\ resolved' = resolved /\ draws' = draws)
            /\ (Len(draws') > Len(draws)) =>
                   draws'[Len(draws')].pos = cur'.pad + 1 ]_vars

\* ---------------------------------------------------------------------
\* Bin labels (specification Spec)
\* ---------------------------------------------------------------------

\* the series drawn into the pad at position pos by the pass that ran last
PassDraws(pos) ==
    { i \in (base + 1)..Len(draws) : draws[i].pos = pos }

\* series i reported bin labels for the x axis
Labelled(i) == Len(draws[i].cfg.obj.xlab) # 0

Completed == pc = "idle" /\ status = "ok" /\ saved

\* C8 (as amended): when a pass completes without raising, the series it drew
\* into any one pad that reported bin labels for the axis all have the same
\* labels and the same anchor positions; series without bin labels take no
\* part in the check.
C8_LabelledSeriesOfAPadAgree ==
    Completed =>
        \A pos \in 1..Len(pads) :
            \A i, j \in PassDraws(pos) :
                (Labelled(i) /\ Labelled(j)) =>
                    /\ draws[i].xlab = draws[j].xlab
                    /\ draws[i].anchors = draws[j].anchors

\* C8 witness: a completed pass that drew two labelled series into pad 0, with
\* the labels put on the axis
C8_Witness ==
    /\ Completed
    /\ \E i, j \in PassDraws(1) : i < j /\ Labelled(i) /\ Labelled(j)
    /\ axes[1].ticklabels = <<"a", "b">>

\* C8 as stated: when a pass completes without raising and some series of a
\* pad reported bin labels, all series of that pad reported the same labels
\* and anchors, so a pad mixing labelled and unlabelled series does not complete
C8_AllSeriesOfAPadAgree ==
    Completed =>
        \A pos \in 1..Len(pads) :
            (\E i \in PassDraws(pos) : Labelled(i)) =>
                \A i, j \in PassDraws(pos) :
                    /\ Labelled(i) /\ Labelled(j)
                    /\ draws[i].xlab = draws[j].xlab
                    /\ draws[i].anchors = draws[j].anchors

\* ---------------------------------------------------------------------
\* Step geometry (specification SpecStep)
\* ---------------------------------------------------------------------

XerrDn(s) == s.xerr[1]
XerrUp(s) == IF Len(s.xerr) = 1 THEN s.xerr[1] ELSE s.xerr[2]

\* adjacent bins i, i+1 whose edges do not meet
GapAfter(s) ==
    { i \in 1..(Len(s.x) - 1) : s.x[i] + XerrUp(s)[i] # s.x[i + 1] - XerrDn(s)[i + 1] }

\* the five x vertices of each bin from bin i on, with a NaN after bin i when
\* its right edge is not the left edge of bin i+1
RECURSIVE ExpectedX(_, _)
ExpectedX(s, i) ==
    IF i > Len(s.x) THEN <<>>
    ELSE << Num(s.x[i] - XerrDn(s)[i]), Num(s.x[i] - XerrDn(s)[i]), Num(s.x[i]),
            Num(s.x[i] + XerrUp(s)[i]), Num(s.x[i] + XerrUp(s)[i]) >>
         \o (IF i \in GapAfter(s) THEN <<NaN>> ELSE <<>>)
         \o ExpectedX(s, i + 1)

\* C9: when _plot_as_step returns, the x vertices are the five vertices of each
\* bin with exactly one NaN between the last vertex of bin i and the first of
\* bin i+1 for each adjacent pair with x[i]+xerr_up[i] # x[i+1]-xerr_dn[i+1],
\* and none elsewhere; the y vertices are NaN at the same places; the length
\* is 5n plus the number of such pairs.
C9_OneGapPerDiscontinuity ==
    (sp.op = "out" /\ sp.err = None) =>
        LET xv == sp.calls[1].x
            yv == sp.calls[1].y
        IN  /\ xv = ExpectedX(sp, 1)
            /\ Len(xv) = 5 * Len(sp.x) + Cardinality(GapAfter(sp))
            /\ Len(yv) = Len(xv)
            /\ \A i \in 1..Len(xv) : IsNaN(yv[i]) <=> IsNaN(xv[i])
            /\ Cardinality({ i \in 1..Len(xv) : IsNaN(xv[i]) }) = Cardinality(GapAfter(sp))

\* C9 witness: three bins, the first two meeting and the last two not
C9_Witness ==
    /\ sp.op = "out" /\ sp.err = None
    /\ Len(sp.x) = 3
    /\ GapAfter(sp) = {2}
    /\ Len(sp.calls[1].x) = 16
    /\ IsNaN(sp.calls[1].x[11])

\* ---------------------------------------------------------------------
\* Accumulators (specification Spec)
\* ---------------------------------------------------------------------

\* C10: at the start of every _plot invocation, before its first subplot, each
\* pad's stack-bottom mapping, stack-label list, bin-label sets and 2-D plot
\* list are empty, also when the configuration object was plotted before.
C10_AccumulatorsEmptyAtStart ==
    (pc = "subplots" /\ k = 0) =>
        \A p \in 1..Len(pads) :
            /\ \A s \in StackNames : pads[p].stack_bottoms[s] = Absent
            /\ pads[p].stack_labels = <<>>
            /\ pads[p].bin_labels["x"] = <<>>
            /\ pads[p].bin_label_anchors["x"] = <<>>
            /\ pads[p].plots2d = <<>>

\* ---------------------------------------------------------------------
\* Registered locals (specification Spec)
\* ---------------------------------------------------------------------

\* C11: whenever no _plot pass is in progress, the input controller holds no
\* registered locals.
C11_NoLocalsOutsideAPass == pc = "idle" => ~locals

\* ---------------------------------------------------------------------
\* Growth of the stack-bottom (specification Spec)
\* ---------------------------------------------------------------------

Abs(v) == IF v < 0 THEN 0 - v ELSE v

\* the stack-bottom values stack s of the pad at pos went through: the
\* baseline of each of its series in order, then the recorded stack-bottom
BottomHistory(pos, s) ==
    LET ds == StackDraws(pos, s)
    IN  [j \in 1..(Len(ds) + 1) |->
            IF j <= Len(ds) THEN ds[j].bottom.a ELSE pads[pos].stack_bottoms[s].a]

\* bin by bin, |b[j+1]| >= |b[j]| along the history (0.0 stands for all bins)
NonDecreasingInAbs(h) ==
    \A j \in 1..(Len(h) - 1) :
        \A i \in 1..Len(h[j + 1]) : Abs(h[j + 1][i]) >= Abs(At(h[j], i))

NonNegative(ds) == \A j \in 1..Len(ds) : \A i \in 1..Len(ds[j].yraw) : ds[j].yraw[i] >= 0

\* C12 (as amended): for every pad and stack name whose series all carry
\* non-negative bin contents, the stack-bottom is non-decreasing in absolute
\* value, bin by bin, across the series drawn into the stack in order.
C12_BottomGrowsForNonNegativeContents ==
    \A pos \in 1..Len(pads), s \in StackNames :
        (Len(StackDraws(pos, s)) > 0 /\ NonNegative(StackDraws(pos, s))) =>
            NonDecreasingInAbs(BottomHistory(pos, s))

\* C12 witness: two series with contents [2,2] in one stack, bottom [4,4]
C12_Witness ==
    /\ Len(StackDraws(1, "s")) = 2
    /\ NonNegative(StackDraws(1, "s"))
    /\ BottomHistory(1, "s") = << <<0>>, <<2, 2>>, <<4, 4>> >>

\* C12 as stated: the same for all bin contents a resolved object can carry
C12_BottomGrowsForAllContents ==
    \A pos \in 1..Len(pads), s \in StackNames :
        Len(StackDraws(pos, s)) > 0 => NonDecreasingInAbs(BottomHistory(pos, s))

\* ---------------------------------------------------------------------
\* A raising subplot (specification Spec)
\* ---------------------------------------------------------------------

\* no pad adjustment was made on the Axes of this pass
Unassembled(ax) ==
    \A p \in 1..Len(ax) :
        /\ ax[p].legend = <<>>
        /\ ax[p].colorbars = <<>>
        /\ ax[p].ticklabels = <<>>
        /\ ax[p].assembled = 0

\* C13: when processing a subplot raises, the pass is over: the draw calls made
\* before stay as they are and so does every stack-bottom array recorded
\* before, at most this one subplot was resolved, no pad adjustment or legend
\* was made and the figure was not saved; the next step taken is the start of
\* another invocation, so no later subplot of this one is resolved or drawn.
C13_RaiseAbortsThePass ==
    [][ /\ (k' = k + 1 /\ status' # "running") =>
              /\ pc' = "idle"
              /\ ~saved'
              /\ Unassembled(axes')
              /\ resolved' <= resolved + 1
              /\ Len(draws') >= Len(draws)
              /\ SubSeq(draws', 1, Len(draws)) = draws
              /\ \A p \in 1..Len(pads), s \in StackNames :
                    pads[p].stack_bottoms[s].k = "array" =>
                        pads'[p].stack_bottoms[s] = pads[p].stack_bottoms[s]
        /\ (pc = "idle") => (pc' = "subplots" /\ k' = 0 /\ resolved' = 0) ]_vars

\* C13 witness: the second subplot of a pass raised after the first was drawn
\* into a stack; the draw and the stack-bottom are there, nothing was saved
C13_Witness ==
    /\ pc = "idle" /\ status = "ValueError" /\ cur # Dflt
    /\ k = 2 /\ base = 0 /\ Len(draws) = 1
    /\ pads[1].stack_bottoms["s"] = Arr(<<2, 2>>)
    /\ ~saved /\ Unassembled(axes)

\* ---------------------------------------------------------------------
\* Error pairs of the step geometry (specification SpecStep)
\* ---------------------------------------------------------------------

\* (lower, upper) of an error given as [v] or as [d, u]
Lower(e) == e[1]
Upper(e) == IF Len(e) = 1 THEN e[1] ELSE e[2]

\* index of the centre vertex of bin i: five vertices per bin, and one more
\* for each gap before the bin
Centre(s, i) == 5 * (i - 1) + 3 + Cardinality({ g \in GapAfter(s) : g < i })

\* C14: when _plot_as_step returns, the bin's outer x vertices are at
\* x - lower and x + upper of the x error, and the y error drawn at the bin's
\* centre is (lower, upper) of the y error (for 'band': the band runs from
\* y - lower to y + upper), where [v] gives lower = upper = v and [d, u] gives
\* lower = d, upper = u.
C14_ErrorsExpandToLowerUpper ==
    (sp.op = "out" /\ sp.err = None) =>
        \A i \in 1..Len(sp.x) :
            LET c == Centre(sp, i)
                call == sp.calls[1]
            IN  /\ call.x[c - 2] = Num(sp.x[i] - Lower(sp.xerr)[i])
                /\ call.x[c + 2] = Num(sp.x[i] + Upper(sp.xerr)[i])
                /\ Len(call.yerr) = 2 =>
                      /\ call.yerr[1][c] = Num(Lower(sp.yerr)[i])
                      /\ call.yerr[2][c] = Num(Upper(sp.yerr)[i])
                /\ sp.show_yerr_as = "band" =>
                      /\ sp.calls[2].lo[c] = Num(sp.y[i] - Lower(sp.yerr)[i])
                      /\ sp.calls[2].hi[c] = Num(sp.y[i] + Upper(sp.yerr)[i])

\* C14 witness: a two-element y error with different sides, drawn as error
\* bars (lower 0, upper 1 at the first bin)
C14_Witness ==
    /\ sp.op = "out" /\ sp.err = None
    /\ sp.show_yerr_as = "errorbar"
    /\ Len(sp.yerr) = 2 /\ sp.yerr[1][1] = 0 /\ sp.yerr[2][1] = 1
    /\ sp.calls[1].yerr[1][3] = Num(0) /\ sp.calls[1].yerr[2][3] = Num(1)

\* ---------------------------------------------------------------------
\* Text output (specification Spec)
\* ---------------------------------------------------------------------

\* C15: with text output enabled, the text file holds one entry for each draw
\* call the pass made, in the order of the draw calls, and none for a subplot
\* that was skipped; so it does when the pass completes.
C15_OneEntryPerDrawCall ==
    text.on => text.entries = [i \in 1..(Len(draws) - base) |-> base + i]

\* C15 witness: a completed pass with text output over two subplots, one of
\* them skipped: one entry
C15_Witness ==
    /\ Completed /\ text.on
    /\ k = 2 /\ Len(draws) = base + 1
    /\ text.entries = <<base + 1>>

\* ---------------------------------------------------------------------
\* Pad adjustments (specification Spec)
\* ---------------------------------------------------------------------

\* the pass that ran last got through its subplots and into the pad loop
ReachedPadLoop == pc = "idle" /\ fig # 0 /\ cur = Dflt

\* C16: when all subplots of a pass were processed, the pad adjustments run to
\* completion once for every configured pad, also for a pad no subplot was
\* drawn into (a pass the bin-label check stops with its ValueError set aside).
C16_EveryPadAssembledOnce ==
    (ReachedPadLoop /\ status # "ValueError") =>
        \A p \in 1..Len(axes) : axes[p].assembled = 1

\* ---------------------------------------------------------------------
\* show_yerr_as (specification SpecStep)
\* ---------------------------------------------------------------------

AllZero(yerr) == \A r \in 1..Len(yerr) : \A i \in 1..Len(yerr[r]) : yerr[r][i] = 0

OwnPad(c, n) == IF c.pad >= 0 THEN c.pad + 1 ELSE n + c.pad + 1

\* C18: processing one subplot changes at most the stack-bottom of its own
\* pad and stack name: every stack-bottom of another pad or another stack name
\* stays as it was, a subplot without a stack name changes none, and when it is
\* drawn its baseline is zero.
C18_OnlyOwnStackBottomChanges ==
    [][ k' = k + 1 =>
            /\ \A p \in 1..Len(pads), s \in StackNames :
                  (p # OwnPad(cur', Len(pads)) \/ s # cur'.stack) =>
                      pads'[p].stack_bottoms[s] = pads[p].stack_bottoms[s]
            /\ (cur'.stack = None /\ Len(draws') > Len(draws)) =>
                  draws'[Len(draws')].bottom = Float0 ]_vars

\* C18 witness: stack "s" was used in both pads, with different sums
C18_Witness ==
    /\ Len(pads) = 2
    /\ pads[1].stack_bottoms["s"] = Arr(<<-2, 4>>)
    /\ pads[2].stack_bottoms["s"] = Arr(<<2, 2>>)

=============================================================================
